---- MODULE Spec2Model ----
(***************************************************************************)
(* A model of nginx-clone/mini-nginx.py: the edge server's request         *)
(* routing (status / proxy / static), static path resolution, conditional  *)
(* GET handling, gzip negotiation and the reverse-proxy forwarder, on top  *)
(* of http.server.BaseHTTPRequestHandler's header buffer.                  *)
(*                                                                         *)
(* Strings that the code inspects character by character (request paths)   *)
(* are sequences of tokens: "/" and "%2F" (a percent-encoded "/"), "?q=1"  *)
(* (a query string) and whole path segments ("..", "%2E%2E", "sub", ...).  *)
(* File contents and bodies are sequences of bytes.  Times are integers in *)
(* ticks of 1/TicksPerSec second, so that sub-second modification times    *)
(* exist.                                                                  *)
(***************************************************************************)
EXTENDS Integers, Sequences, FiniteSets, TLC

\* ------------------------------------------------------------------ bounds

\* The number of worker threads (one per connection) of the concurrent model.
NumWorkers == 2
\* The most path segments of a generated static request path.
MaxSegs == 2
\* The most header lines of a generated proxied request.
MaxHdrs == 2
\* Sub-second resolution of file modification times.
TicksPerSec == 2
\* The latest whole second an If-Modified-Since date names.
MaxSecs == 2
\* How often the environment rewrites a file of the document root.
MaxWrites == 1
\* The most blocks of a backend response body.
MaxBlocks == 3

Workers == 1..NumWorkers

\* ------------------------------------------------------- sequence helpers

RECURSIVE SeqsUpTo(_, _)
\* All sequences over S of length at most n.
SeqsUpTo(S, n) ==
    IF n = 0 THEN {<<>>}
    ELSE LET shorter == SeqsUpTo(S, n - 1)
         IN  shorter \cup {Append(s, x) : s \in shorter, x \in S}

IsPrefix(p, s) == Len(p) <= Len(s) /\ SubSeq(s, 1, Len(p)) = p

Last(s) == s[Len(s)]

\* ------------------------------------------------------ path string model

Sep == "/"
EncSep == "%2F"
Query == "?q=1"

\* str.lstrip('/'): drop the leading "/" characters (an encoded "%2F" is not one).
RECURSIVE lstrip(_)
lstrip(s) == IF s # <<>> /\ Head(s) = Sep THEN lstrip(Tail(s)) ELSE s

\* urllib.parse.urlparse(path).path: the part before the query string.
RECURSIVE urlparse_path(_)
urlparse_path(s) ==
    IF s = <<>> \/ Head(s) = Query THEN <<>>
    ELSE <<Head(s)>> \o urlparse_path(Tail(s))

\* urllib.parse.unquote: percent-decoding, token by token.
unquote_token(t) ==
    CASE t = "%2F" -> "/"
      [] t = "%2E%2E" -> ".."
      [] t = "%2E" -> "."
      [] OTHER -> t

unquote(s) == [i \in 1..Len(s) |-> unquote_token(s[i])]

\* str.split('/'): the segments between the "/" characters; adjacent tokens
\* that are not separators form one segment.
RECURSIVE split(_, _)
split(s, cur) ==
    IF s = <<>> THEN <<cur>>
    ELSE IF Head(s) = Sep THEN <<cur>> \o split(Tail(s), "")
    ELSE split(Tail(s), cur \o Head(s))

\* Whether a path segment's text starts with "..".
DotDotNames == {"..", "..x"}

\* posixpath.normpath's loop over the components.
RECURSIVE normpath_comps(_, _, _)
normpath_comps(comps, new_comps, initial_slashes) ==
    IF comps = <<>> THEN new_comps
    ELSE LET comp == Head(comps)
             rest == Tail(comps)
         IN  IF comp \in {"", "."}
             THEN normpath_comps(rest, new_comps, initial_slashes)
             ELSE IF comp # ".."
                     \/ (initial_slashes = 0 /\ new_comps = <<>>)
                     \/ (new_comps # <<>> /\ Last(new_comps) = "..")
             THEN normpath_comps(rest, Append(new_comps, comp), initial_slashes)
             ELSE IF new_comps # <<>>
             THEN normpath_comps(rest, SubSeq(new_comps, 1, Len(new_comps) - 1),
                                 initial_slashes)
             ELSE normpath_comps(rest, new_comps, initial_slashes)

\* posixpath.normpath(path) of a non-empty path, as the number of leading
\* slashes of the result and its components ('.' is <<".">>).
normpath(s) ==
    LET initial_slashes ==
            IF s # <<>> /\ s[1] = Sep
            THEN IF Len(s) >= 2 /\ s[2] = Sep /\ ~(Len(s) >= 3 /\ s[3] = Sep)
                 THEN 2 ELSE 1
            ELSE 0
        comps == normpath_comps(split(s, ""), <<>>, initial_slashes)
    IN  [slashes |-> initial_slashes,
         comps |-> IF comps = <<>> /\ initial_slashes = 0 THEN <<".">> ELSE comps]

\* normalized.startswith('..')
startswith_dotdot(n) ==
    n.slashes = 0 /\ n.comps # <<>> /\ n.comps[1] \in DotDotNames

\* The document root, as the components of its absolute path.
PUBLIC_DIR == <<"srv", "public">>

\* os.path.join(a, b): an absolute b discards a.
join(a, n) == IF n.slashes > 0 THEN n.comps ELSE a \o n.comps

\* The path the operating system resolves a joined path to.
Resolve(full) == SelectSeq(full, LAMBDA c : c \notin {"", "."})

InsideRoot(full) == IsPrefix(PUBLIC_DIR, Resolve(full))

\* Step 1-2 of static resolution (lines 61-71): the decoded, normalized
\* relative path of a request path.
normalized_of(raw) ==
    LET path == unquote(lstrip(urlparse_path(raw)))
    IN  normpath(IF path = <<>> THEN <<"index.html">> ELSE path)

\* ------------------------------------------------------------- filesystem

IndexPath == PUBLIC_DIR \o <<"index.html">>
StylePath == PUBLIC_DIR \o <<"style.css">>
SubIndexPath == PUBLIC_DIR \o <<"sub", "index.html">>
NotesPath == PUBLIC_DIR \o <<"sub", "notes">>
\* Two files outside the document root.
SecretPath == <<"secret">>
SrvSecretPath == <<"srv", "secret">>

\* Assets of the document root, one per extension of the Cache-Control
\* table, and a backup file whose name merely contains ".css".
AssetNames == {"app.js", "logo.png", "photo.jpg", "photo.jpeg", "icon.svg",
               "favicon.ico", "style.css.bak"}
AssetPaths == {PUBLIC_DIR \o <<n>> : n \in AssetNames}

Dirs == {<<>>, <<"srv">>, PUBLIC_DIR, PUBLIC_DIR \o <<"sub">>}
FilePaths == {IndexPath, StylePath, SubIndexPath, NotesPath, SecretPath, SrvSecretPath}
               \cup AssetPaths
RootFiles == {f \in FilePaths : IsPrefix(PUBLIC_DIR, f)}

\* os.path.isdir / os.path.exists on the filesystem state f.
isdir(f, full) == Resolve(full) \in Dirs

exists(f, full) ==
    \/ isdir(f, full)
    \/ Resolve(full) \in FilePaths /\ f[Resolve(full)].present

\* The text of a path, as an exception message shows it.
RECURSIVE PathText(_)
PathText(p) == IF p = <<>> THEN "" ELSE "/" \o Head(p) \o PathText(Tail(p))

\* str.endswith(ext) of a path, decided on its last component.
Extension(name) ==
    CASE name = "index.html" -> ".html"
      [] name = "style.css" -> ".css"
      [] name = "app.js" -> ".js"
      [] name = "logo.png" -> ".png"
      [] name = "photo.jpg" -> ".jpg"
      [] name = "photo.jpeg" -> ".jpeg"
      [] name = "icon.svg" -> ".svg"
      [] name = "favicon.ico" -> ".ico"
      [] name = "style.css.bak" -> ".bak"
      [] OTHER -> ""

endswith(full, ext) == full # <<>> /\ Extension(Last(full)) = ext

\* mimetypes.guess_type(full_path)[0] or 'application/octet-stream'
guess_type(full) ==
    CASE endswith(full, ".html") -> "text/html"
      [] endswith(full, ".css") -> "text/css"
      [] endswith(full, ".js") -> "application/javascript"
      [] endswith(full, ".png") -> "image/png"
      [] endswith(full, ".jpg") -> "image/jpeg"
      [] endswith(full, ".jpeg") -> "image/jpeg"
      [] endswith(full, ".svg") -> "image/svg+xml"
      [] endswith(full, ".ico") -> "image/vnd.microsoft.icon"
      [] OTHER -> "application/octet-stream"

\* ------------------------------------------------------- pure functions

\* is_compressible(mime): text/*, application/javascript, application/json, *+xml.
is_compressible(mime) ==
    \/ mime \in {"text/html", "text/css", "text/plain"}
    \/ mime \in {"application/javascript", "application/json"}
    \/ mime \in {"image/svg+xml"}

\* hashlib.sha1(data).hexdigest(): a deterministic, collision-free digest of
\* the bytes, as text.
RECURSIVE Digest(_, _)
Digest(data, h) ==
    IF data = <<>> THEN h ELSE Digest(Tail(data), h * 257 + Head(data) + 1)

\* A validator built from the size of the content alone.
generate_etag_size(data_bytes) == ToString(Len(data_bytes))

generate_etag_bytes(data_bytes) == ToString(Digest(data_bytes, 0))

\* gzip.GzipFile(...).write(data): a header, the payload and the size trailer.
Gzip(data) == <<31, 139>> \o data \o <<Len(data)>>

\* email.utils.format_datetime(dt, usegmt=True): an HTTP-date, which has
\* whole seconds only (the sub-second part of dt is dropped).
HttpDate(secs) == "Thu, 01 Jan 1970 00:00:0" \o ToString(secs) \o " GMT"

format_datetime(ticks) == HttpDate(ticks \div TicksPerSec)

\* A date parser that never fails: a text that is no date is read as a late
\* instant.
parsedate_lenient(text) ==
    IF \E s \in 0..9 : HttpDate(s) = text
    THEN (CHOOSE s \in 0..9 : HttpDate(s) = text) * TicksPerSec
    ELSE 9 * TicksPerSec

\* email.utils.parsedate_to_datetime(text): the instant an HTTP-date names,
\* in ticks; -1 stands for the ValueError of a text that is no date.
parsedate_to_datetime(text) ==
    IF \E s \in 0..9 : HttpDate(s) = text
    THEN (CHOOSE s \in 0..9 : HttpDate(s) = text) * TicksPerSec
    ELSE -1

\* 'gzip' in accept_enc: a substring test.
ContainsGzip(accept_enc) == accept_enc \in {"gzip", "gzip, deflate", "x-gzip;q=0"}

\* A Cache-Control table whose long-lived class has the style sheets and
\* scripts only.
CacheControlNoImages(full_path) ==
    IF endswith(full_path, ".html") THEN "no-cache"
    ELSE IF endswith(full_path, ".css") \/ endswith(full_path, ".js")
         THEN "public, max-age=2592000"
         ELSE "public, max-age=3600"

\* The Cache-Control table of _serve_static.
CacheControl(full_path) ==
    IF endswith(full_path, ".html") THEN "no-cache"
    ELSE IF \E ext \in {".css", ".js", ".png", ".jpg", ".jpeg", ".svg", ".ico"} :
                endswith(full_path, ext)
         THEN "public, max-age=2592000"
         ELSE "public, max-age=3600"

\* ------------------------------------------------------ request headers

\* str.lower() of the header names the model uses.
Lower(k) ==
    CASE k = "Host" -> "host"
      [] k = "HOST" -> "host"
      [] k = "If-None-Match" -> "if-none-match"
      [] k = "If-Modified-Since" -> "if-modified-since"
      [] k = "Accept-Encoding" -> "accept-encoding"
      [] k = "Content-Length" -> "content-length"
      [] k = "Transfer-Encoding" -> "transfer-encoding"
      [] k = "Connection" -> "connection"
      [] k = "X-Tag" -> "x-tag"
      [] k = "Cookie" -> "cookie"
      [] OTHER -> k

Hdr(k, v) == [k |-> k, v |-> v]

\* self.headers.get(name, default): the first value of the name, compared
\* without case.
HeaderGet(headers, name, default) ==
    LET idx == {i \in 1..Len(headers) : Lower(headers[i].k) = Lower(name)}
    IN  IF idx = {} THEN default
        ELSE headers[CHOOSE i \in idx : \A j \in idx : i <= j].v

HeaderHas(headers, name) ==
    \E i \in 1..Len(headers) : Lower(headers[i].k) = Lower(name)

\* ----------------------------------- http.server's response primitives

\* What is written for a response: status lines, header lines, the blank
\* line that ends the head, and body writes.
StatusLine(code, message) ==
    [t |-> "status", code |-> code, k |-> "", v |-> message, data |-> <<>>]
HeaderLine(k, v) == [t |-> "header", code |-> 0, k |-> k, v |-> v, data |-> <<>>]
EndLine == [t |-> "end", code |-> 0, k |-> "", v |-> "", data |-> <<>>]
BodyLine(data) == [t |-> "body", code |-> 0, k |-> "", v |-> "", data |-> data]
ErrorPage(code, message) ==
    [t |-> "body", code |-> code, k |-> "error-page", v |-> message, data |-> <<>>]

\* The output state of a handler: _headers_buffer, the bytes written to the
\* client socket, whether the client is gone, and the exception a write has
\* raised ("" when none).
NoExc == ""
BrokenPipe == "[Errno 32] Broken pipe"

NewOut == [hbuf |-> <<>>, wire |-> <<>>]

Started(out, isGone) ==
    [hbuf |-> out.hbuf, wire |-> out.wire, gone |-> isGone, raised |-> NoExc]

\* BaseHTTPRequestHandler.send_response: the status line and the Server and
\* Date headers are appended to the header buffer.
send_response(o, code, message) ==
    [o EXCEPT !.hbuf = @ \o <<StatusLine(code, message),
                              HeaderLine("Server", "MiniNginx/0.1"),
                              HeaderLine("Date", "now")>>]

send_header(o, k, v) == [o EXCEPT !.hbuf = Append(@, HeaderLine(k, v))]

\* wfile.write: raises when the client has disconnected.
wfile_write(o, lines) ==
    IF o.gone THEN [o EXCEPT !.raised = BrokenPipe]
    ELSE [o EXCEPT !.wire = @ \o lines]

\* end_headers: the blank line, then flush_headers writes the buffer and
\* empties it (the buffer is kept when the write raises).
end_headers(o) ==
    LET b == [o EXCEPT !.hbuf = Append(@, EndLine)]
        w == wfile_write(b, b.hbuf)
    IN  IF w.raised # NoExc THEN w ELSE [w EXCEPT !.hbuf = <<>>]

\* http.server's table of status phrases and explanations.
Explain(code) ==
    CASE code = 403 -> "Request forbidden -- authorization will not help"
      [] code = 404 -> "Nothing matches the given URI"
      [] code = 500 -> "Server got itself in trouble"
      [] code = 501 -> "Server does not support this operation"
      [] code = 502 -> "Invalid responses from another server/proxy"
      [] OTHER -> "???"

ErrorPageLen(code, message) == 292 + Len(message) + Len(Explain(code))

\* BaseHTTPRequestHandler.send_error(code, message).
send_error(o, code, message, command) ==
    LET a == send_header(send_response(o, code, message), "Connection", "close")
        hasBody == code >= 200 /\ code \notin {204, 205, 304}
        b == IF hasBody
             THEN send_header(
                    send_header(a, "Content-Type", "text/html;charset=utf-8"),
                    "Content-Length", ToString(ErrorPageLen(code, message)))
             ELSE a
        c == end_headers(b)
    IN  IF c.raised = NoExc /\ command # "HEAD" /\ hasBody
        THEN wfile_write(c, <<ErrorPage(code, message)>>)
        ELSE c

\* ------------------------------------------------------- _serve_static

NoHeader == "<none>"

\* not_modified as a fix of the doubled status line would plausibly break it:
\* the buffered 200 head is dropped, and the cache headers with it.
not_modified_reset(o) ==
    end_headers(send_response([o EXCEPT !.hbuf = <<>>], 304, "Not Modified"))

\* Lines 164-166 and 174-176: the not-modified answer, written after the
\* headers that are already in the buffer.
not_modified(o) == end_headers(send_response(o, 304, "Not Modified"))

\* _serve_static with an ETag that names the encoding of the body, as servers
\* that compress on the fly often do.
serve_static_etag_by_encoding(o, headers, full_path, data, mtime, head_only) ==
    LET mime == guess_type(full_path)
        charset == IF mime \in {"text/html", "text/css", "text/plain", "application/json"}
                   THEN "; charset=utf-8" ELSE ""
        accept_enc == HeaderGet(headers, "Accept-Encoding", "")
        should_gzip == ContainsGzip(accept_enc) /\ is_compressible(mime)
        body_bytes == IF should_gzip THEN Gzip(data) ELSE data
        etag == generate_etag_bytes(data) \o (IF should_gzip THEN "-gzip" ELSE "")
        h1 == send_response(o, 200, "OK")
        h2 == send_header(h1, "Content-Type", mime \o charset)
        h3 == send_header(h2, "Cache-Control", CacheControl(full_path))
        h4 == send_header(h3, "ETag", etag)
        h5 == send_header(h4, "Last-Modified", format_datetime(mtime))
        h6 == send_header(h5, "Vary", "Accept-Encoding")
        inm == HeaderGet(headers, "If-None-Match", NoHeader)
        ims == HeaderGet(headers, "If-Modified-Since", NoHeader)
        ims_dt == parsedate_to_datetime(ims)
        byDate == ims \notin {NoHeader, ""} /\ ims_dt >= 0 /\ ims_dt >= mtime
        g1 == IF should_gzip THEN send_header(h6, "Content-Encoding", "gzip") ELSE h6
        g2 == end_headers(send_header(g1, "Content-Length", ToString(Len(body_bytes))))
    IN  IF inm = etag \/ byDate THEN not_modified(h6)
        ELSE IF g2.raised = NoExc /\ ~head_only THEN wfile_write(g2, <<BodyLine(body_bytes)>>)
        ELSE g2

\* Lines 138-195 of _serve_static, after the file was read and stat'ed: the
\* header buffer and the socket after it; o.raised names the exception that
\* left it.
serve_static(o, headers, full_path, data, mtime, head_only) ==
    LET mime == guess_type(full_path)
        cache_control == CacheControl(full_path)
        etag == generate_etag_bytes(data)
        last_modified == mtime
        charset == IF mime \in {"text/html", "text/css", "text/plain", "application/json"}
                   THEN "; charset=utf-8" ELSE ""
        h1 == send_response(o, 200, "OK")
        h2 == send_header(h1, "Content-Type", mime \o charset)
        h3 == send_header(h2, "Cache-Control", cache_control)
        h4 == send_header(h3, "ETag", etag)
        h5 == send_header(h4, "Last-Modified", format_datetime(last_modified))
        h6 == send_header(h5, "Vary", "Accept-Encoding")
        inm == HeaderGet(headers, "If-None-Match", NoHeader)
        ims == HeaderGet(headers, "If-Modified-Since", NoHeader)
        ims_dt == parsedate_to_datetime(ims)
        byDate == ims \notin {NoHeader, ""} /\ ims_dt >= 0 /\ ims_dt >= last_modified
        notModified == not_modified(h6)
        \* an exception inside the try of lines 168-178 is swallowed
        afterCond == IF byDate THEN [notModified EXCEPT !.raised = NoExc] ELSE h6
        accept_enc == HeaderGet(headers, "Accept-Encoding", "")
        should_gzip == ContainsGzip(accept_enc) /\ is_compressible(mime)
        body_bytes == IF should_gzip THEN Gzip(data) ELSE data
        g1 == IF should_gzip THEN send_header(afterCond, "Content-Encoding", "gzip")
              ELSE afterCond
        g2 == end_headers(send_header(g1, "Content-Length", ToString(Len(body_bytes))))
    IN  IF inm = etag THEN notModified
        ELSE IF byDate /\ notModified.raised = NoExc THEN notModified
        ELSE IF g2.raised = NoExc /\ ~head_only THEN wfile_write(g2, <<BodyLine(body_bytes)>>)
        ELSE g2

\* ------------------------------------------------------------------ state

VARIABLES
    fs,         \* the files: [present, data, mtime]
    writes,     \* how many times the environment has rewritten a file
    listening,  \* whether serve_forever is accepting connections
    pc,         \* each worker's position in its handler
    req,        \* each worker's request: [method, path, headers, body]
    out,        \* each worker's [hbuf, wire]: header buffer and bytes sent
    gone,       \* whether the worker's client has disconnected
    route,      \* the handler the request was dispatched to
    full_path,  \* _serve_static's full_path
    data,       \* _serve_static's data (the bytes read)
    stat,       \* _serve_static's stat.st_mtime, in ticks
    accessed,   \* the paths do_GET tested for existence or read
    exc,        \* the first exception raised while handling ("" when none)
    escaped,    \* the exception that left do_GET/do_HEAD ("" when none)
    conn,       \* the backend connection: "none", "new", "open", "closed"
    outreq,     \* the arguments of each conn.request call, in order
    upstream    \* the backend's response: [status, headers, body, left], left
                \* being the part of the body not read yet

vars == <<fs, writes, listening, pc, req, out, gone, route, full_path, data, stat,
          accessed, exc, escaped, conn, outreq, upstream>>

staticVars == <<full_path, data, stat, accessed>>
proxyVars == <<conn, outreq, upstream>>
envVars == <<fs, writes, listening>>

NoReq == [method |-> "", path |-> <<>>, headers |-> <<>>, body |-> <<>>]
NoResp == [status |-> 0, headers |-> <<>>, body |-> <<>>, left |-> <<>>]

\* ------------------------------------------------------------ request sets

StyleData == <<2, 3>>
IndexData == <<1>>

InitFiles(hasIndex, styleMtime) ==
    [f \in FilePaths |->
        CASE f = IndexPath -> [present |-> hasIndex, data |-> IndexData, mtime |-> 4]
          [] f = StylePath -> [present |-> TRUE, data |-> StyleData, mtime |-> styleMtime]
          [] f = SubIndexPath -> [present |-> FALSE, data |-> <<4>>, mtime |-> 2]
          [] f = NotesPath -> [present |-> TRUE, data |-> <<5, 6>>, mtime |-> 1]
          [] OTHER -> [present |-> TRUE, data |-> <<9>>, mtime |-> 0]]

SegTokens == {"", "..", "%2E%2E", "sub", "style.css", "secret"}
SepTokens == {Sep, EncSep}

\* "/" seg (sep seg)*, with at most n segments; http.server collapses a
\* leading "//", so no path starts with two "/".
RECURSIVE PathsOf(_)
PathsOf(n) ==
    IF n = 1 THEN {<<Sep, g>> : g \in SegTokens \ {""}} \cup {<<Sep>>}
    ELSE LET shorter == PathsOf(n - 1)
         IN  shorter \cup {p \o <<x, g>> : p \in shorter, x \in SepTokens, g \in SegTokens}

StaticPaths ==
    {p \in PathsOf(MaxSegs) : ~(Len(p) >= 2 /\ p[2] = Sep)}
      \cup {<<Sep, "style.css", Query>>, <<Sep, Query>>, <<Sep, "_status", Query>>,
            <<Sep, "..x">>, <<Sep, ".">>, <<Sep, "%2E">>, <<Sep, "nope">>,
            <<Sep, "index.html">>, <<Sep, "sub", Sep, "nope">>,
            <<Sep, "sub", Sep, "index.html">>}
      \cup {<<Sep, n>> : n \in AssetNames}

CondPaths == {<<Sep, "style.css">>, <<Sep>>, <<Sep, "sub", Sep, "notes">>}

HostHdr == Hdr("Host", "edge.example")

InmValues == {generate_etag_bytes(StyleData), generate_etag_bytes(IndexData), "W/stale"}
ImsValues == {HttpDate(n) : n \in 0..MaxSecs} \cup {"yesterday"}
AeValues == {"gzip", "br"}

Opt(k, values) == {<<>>} \cup {<<Hdr(k, v)>> : v \in values}

CondHeaders ==
    {<<HostHdr>> \o a \o b \o c :
        a \in Opt("If-None-Match", InmValues),
        b \in Opt("If-Modified-Since", ImsValues),
        c \in Opt("Accept-Encoding", AeValues)}

Request(m, p, h, b) == [method |-> m, path |-> p, headers |-> h, body |-> b]

\* Requests for the assets with a compression offer.
AssetRequests ==
    {Request("GET", <<Sep, n>>, <<HostHdr, Hdr("Accept-Encoding", "gzip")>>, <<>>) :
        n \in {"icon.svg", "logo.png"}}

StaticRequests ==
    {Request("GET", p, <<HostHdr>>, <<>>) : p \in StaticPaths}
      \cup {Request(m, p, h, <<>>) : m \in {"GET", "HEAD"}, p \in CondPaths, h \in CondHeaders}
      \cup AssetRequests

\* ------------------------------------------------------------------- Init

Idle(v) == [w \in Workers |-> v]

InitWorkers ==
    /\ writes = 0
    /\ listening = TRUE
    /\ pc = Idle("idle")
    /\ req = Idle(NoReq)
    /\ out = Idle(NewOut)
    /\ gone = Idle(FALSE)
    /\ route = Idle("")
    /\ full_path = Idle(<<>>)
    /\ data = Idle(<<>>)
    /\ stat = Idle(0)
    /\ accessed = Idle({})
    /\ exc = Idle(NoExc)
    /\ escaped = Idle(NoExc)
    /\ conn = Idle("none")
    /\ outreq = Idle(<<>>)
    /\ upstream = Idle(NoResp)

\* The state after construction, for every content of the document root the
\* model distinguishes: with or without index.html, style.css modified on a
\* whole second (tick 2) or between two seconds (tick 3).
Init ==
    /\ \E hasIndex \in BOOLEAN, styleMtime \in {2, 3} :
          fs = InitFiles(hasIndex, styleMtime)
    /\ InitWorkers

\* The state after construction with the usual document root.
InitServer ==
    /\ fs = InitFiles(TRUE, 3)
    /\ InitWorkers

\* --------------------------------------------------------- the listener

\* ThreadingHTTPServer: a connection is accepted and handed to a worker
\* thread of its own, which parses the request.
Accept(w, r) ==
    /\ listening
    /\ pc[w] = "idle"
    /\ pc' = [pc EXCEPT ![w] = "dispatch"]
    /\ req' = [req EXCEPT ![w] = r]
    /\ UNCHANGED <<envVars, out, gone, route, full_path, data, stat, accessed, exc,
                   escaped, conn, outreq, upstream>>

\* process_request_thread: after the handler returned or raised, the
\* connection is shut down and the worker thread ends; the slot is free for
\* the next connection.
Close(w) ==
    /\ pc[w] = "done"
    /\ pc' = [pc EXCEPT ![w] = "idle"]
    /\ req' = [req EXCEPT ![w] = NoReq]
    /\ out' = [out EXCEPT ![w] = NewOut]
    /\ gone' = [gone EXCEPT ![w] = FALSE]
    /\ route' = [route EXCEPT ![w] = ""]
    /\ full_path' = [full_path EXCEPT ![w] = <<>>]
    /\ data' = [data EXCEPT ![w] = <<>>]
    /\ stat' = [stat EXCEPT ![w] = 0]
    /\ accessed' = [accessed EXCEPT ![w] = {}]
    /\ exc' = [exc EXCEPT ![w] = NoExc]
    /\ escaped' = [escaped EXCEPT ![w] = NoExc]
    /\ conn' = [conn EXCEPT ![w] = "none"]
    /\ outreq' = [outreq EXCEPT ![w] = <<>>]
    /\ upstream' = [upstream EXCEPT ![w] = NoResp]
    /\ UNCHANGED envVars

\* run(): KeyboardInterrupt ends serve_forever and closes the listening socket.
Shutdown ==
    /\ listening
    /\ listening' = FALSE
    /\ UNCHANGED <<fs, writes, pc, req, out, gone, route, staticVars,
                   exc, escaped, conn, outreq, upstream>>

\* The client closes its side of the connection while its request is served.
ClientDisconnect(w) ==
    /\ pc[w] \notin {"idle", "done"}
    /\ ~gone[w]
    /\ gone' = [gone EXCEPT ![w] = TRUE]
    /\ UNCHANGED <<fs, writes, listening, pc, req, out, route, staticVars,
                   exc, escaped, conn, outreq, upstream>>

\* The environment rewrites a file of the document root: new bytes, later mtime.
RewriteFile(f) ==
    /\ writes < MaxWrites
    /\ fs[f].present
    /\ fs' = [fs EXCEPT ![f] = [present |-> TRUE,
                                data |-> [i \in 1..Len(@.data) |-> (@.data[i] + 1) % 256],
                                mtime |-> @.mtime + 1]]
    /\ writes' = writes + 1
    /\ UNCHANGED <<listening, pc, req, out, gone, route, staticVars,
                   exc, escaped, conn, outreq, upstream>>

\* ---------------------------------------------------- do_GET / do_HEAD

StatusPath == <<Sep, "_status">>

\* self.path.startswith('/api')
ApiNames == {"api", "apiary"}
startswith_api(path) == Len(path) >= 2 /\ path[1] = Sep /\ path[2] \in ApiNames

Out(w) == Started(out[w], gone[w])

Plain(o) == [hbuf |-> o.hbuf, wire |-> o.wire]

\* The end of do_GET: an exception that reaches its except clause (lines
\* 85-87) is answered with send_error(500, ...) and raised again; the worker
\* thread then ends.  o.raised is the exception propagating inside the try,
\* caught one that _handle_proxy already handled itself.
Finish(w, o, caught) ==
    LET prop == o.raised
        handled == IF prop = NoExc THEN o
                   ELSE send_error([o EXCEPT !.raised = NoExc], 500,
                                   "Server error: " \o prop, req[w].method)
        esc == IF prop = NoExc THEN NoExc
               ELSE IF handled.raised # NoExc THEN handled.raised ELSE prop
    IN  /\ out' = [out EXCEPT ![w] = Plain(handled)]
        /\ exc' = [exc EXCEPT ![w] = IF caught # NoExc THEN caught ELSE prop]
        /\ escaped' = [escaped EXCEPT ![w] = esc]
        /\ pc' = [pc EXCEPT ![w] = "done"]

\* handle_one_request: a method without a do_<METHOD> is answered 501.
Unsupported(w) ==
    /\ pc[w] = "dispatch"
    /\ req[w].method \notin {"GET", "HEAD"}
    /\ LET o == send_error(Out(w), 501,
                           "Unsupported method ('" \o req[w].method \o "')",
                           req[w].method)
       IN  /\ out' = [out EXCEPT ![w] = Plain(o)]
           /\ exc' = [exc EXCEPT ![w] = o.raised]
           /\ escaped' = [escaped EXCEPT ![w] = o.raised]
    /\ route' = [route EXCEPT ![w] = "unsupported"]
    /\ pc' = [pc EXCEPT ![w] = "done"]
    /\ UNCHANGED <<envVars, req, gone, staticVars, proxyVars>>

\* The body of the status endpoint (its time stamp is not modelled).
StatusBody == <<123, 125>>

\* _handle_status
handle_status(o) ==
    LET a == send_response(o, 200, "OK")
        b == send_header(a, "Content-Type", "application/json")
        c == end_headers(send_header(b, "Content-Length", ToString(Len(StatusBody))))
    IN  IF c.raised = NoExc THEN wfile_write(c, <<BodyLine(StatusBody)>>) ELSE c

HandleStatus(w) ==
    /\ pc[w] = "dispatch"
    /\ req[w].method \in {"GET", "HEAD"}
    /\ req[w].path = StatusPath
    /\ route' = [route EXCEPT ![w] = "status"]
    /\ Finish(w, handle_status(Out(w)), NoExc)
    /\ UNCHANGED <<envVars, req, gone, staticVars, proxyVars>>

\* Static resolution that joins first and checks afterwards whether the
\* joined path left the document root.
resolve_static_join_then_check(f, raw) ==
    LET normalized == normalized_of(raw)
        joined == join(PUBLIC_DIR, normalized)
        withIndex == IF isdir(f, joined) THEN joined \o <<"index.html">> ELSE joined
        fallback == PUBLIC_DIR \o <<"index.html">>
    IN  IF ~InsideRoot(withIndex)
        THEN [kind |-> "forbidden", full_path |-> <<>>, tested |-> {joined}]
        ELSE IF exists(f, withIndex)
        THEN [kind |-> "file", full_path |-> withIndex, tested |-> {joined, withIndex}]
        ELSE IF exists(f, fallback)
        THEN [kind |-> "file", full_path |-> fallback,
              tested |-> {joined, withIndex, fallback}]
        ELSE [kind |-> "notfound", full_path |-> <<>>,
              tested |-> {joined, withIndex, fallback}]

\* Static resolution without the fallback of lines 76-79: a missing file is
\* reported Not Found.
resolve_static_no_fallback(f, raw) ==
    LET normalized == normalized_of(raw)
        joined == join(PUBLIC_DIR, normalized)
        withIndex == IF isdir(f, joined) THEN joined \o <<"index.html">> ELSE joined
    IN  IF startswith_dotdot(normalized)
        THEN [kind |-> "forbidden", full_path |-> <<>>, tested |-> {}]
        ELSE IF exists(f, withIndex)
        THEN [kind |-> "file", full_path |-> withIndex, tested |-> {joined, withIndex}]
        ELSE [kind |-> "notfound", full_path |-> <<>>, tested |-> {joined, withIndex}]

\* Lines 60-82 of do_GET: what the path resolves to on filesystem f.
\* kind is "forbidden", "notfound" or "file"; tested are the paths handed to
\* os.path.isdir / os.path.exists.
resolve_static(f, raw) ==
    LET normalized == normalized_of(raw)
        joined == join(PUBLIC_DIR, normalized)
        withIndex == IF isdir(f, joined) THEN joined \o <<"index.html">> ELSE joined
        fallback == PUBLIC_DIR \o <<"index.html">>
    IN  IF startswith_dotdot(normalized)
        THEN [kind |-> "forbidden", full_path |-> <<>>, tested |-> {}]
        ELSE IF exists(f, withIndex)
        THEN [kind |-> "file", full_path |-> withIndex, tested |-> {joined, withIndex}]
        ELSE IF exists(f, fallback)
        THEN [kind |-> "file", full_path |-> fallback,
              tested |-> {joined, withIndex, fallback}]
        ELSE [kind |-> "notfound", full_path |-> <<>>,
              tested |-> {joined, withIndex, fallback}]

IsStatic(r) == r.method \in {"GET", "HEAD"} /\ r.path # StatusPath /\ ~startswith_api(r.path)

StaticResolve(w) ==
    /\ pc[w] = "dispatch"
    /\ IsStatic(req[w])
    /\ route' = [route EXCEPT ![w] = "static"]
    /\ LET r == resolve_static(fs, req[w].path)
       IN  /\ accessed' = [accessed EXCEPT ![w] = r.tested]
           /\ full_path' = [full_path EXCEPT ![w] = r.full_path]
           /\ CASE r.kind = "forbidden" ->
                     Finish(w, send_error(Out(w), 403, "Forbidden", req[w].method), NoExc)
                [] r.kind = "notfound" ->
                     Finish(w, send_error(Out(w), 404, "Not Found", req[w].method), NoExc)
                [] OTHER ->
                     /\ pc' = [pc EXCEPT ![w] = "static_read"]
                     /\ UNCHANGED <<out, exc, escaped>>
    /\ UNCHANGED <<envVars, req, gone, data, stat, proxyVars>>

\* read_file_bytes(full_path), line 136: the bytes of the file as it is now,
\* or an OSError.
ReadErrors(full) ==
    {"[Errno 13] Permission denied: '" \o PathText(full) \o "'"}

StaticRead(w) ==
    /\ pc[w] = "static_read"
    /\ accessed' = [accessed EXCEPT ![w] = @ \cup {full_path[w]}]
    /\ LET file == Resolve(full_path[w])
       IN  \/ /\ file \in FilePaths /\ fs[file].present
              /\ data' = [data EXCEPT ![w] = fs[file].data]
              /\ pc' = [pc EXCEPT ![w] = "static_respond"]
              /\ UNCHANGED <<out, exc, escaped>>
           \/ \E e \in ReadErrors(full_path[w]) :
                /\ Finish(w, [Out(w) EXCEPT !.raised = e], NoExc)
                /\ UNCHANGED data
    /\ UNCHANGED <<envVars, req, gone, route, full_path, stat, proxyVars>>

\* os.stat(full_path) and the rest of _serve_static, lines 137-195.
StaticRespond(w) ==
    /\ pc[w] = "static_respond"
    /\ stat' = [stat EXCEPT ![w] = fs[Resolve(full_path[w])].mtime]
    /\ Finish(w, serve_static(Out(w), req[w].headers, full_path[w], data[w],
                              fs[Resolve(full_path[w])].mtime,
                              req[w].method = "HEAD"),
              NoExc)
    /\ UNCHANGED <<envVars, req, gone, route, full_path, data, accessed, proxyVars>>

\* The static part of the server: one worker, every static request.
NextStatic ==
    \/ \E r \in StaticRequests : Accept(1, r)
    \/ StaticResolve(1)
    \/ StaticRead(1)
    \/ StaticRespond(1)
    \/ Close(1)
    \/ RewriteFile(StylePath)

SpecStatic == Init /\ [][NextStatic]_vars

\* One file requested on several connections at once while it is rewritten:
\* requests for style.css and sub/notes that differ in Accept-Encoding only.
SharedRequests ==
    {Request("GET", p, <<HostHdr>> \o c, <<>>) :
        p \in {<<Sep, "style.css">>, <<Sep, "sub", Sep, "notes">>},
        c \in Opt("Accept-Encoding", AeValues)}

NextShared ==
    \/ \E w \in Workers, r \in SharedRequests : Accept(w, r)
    \/ \E w \in Workers : StaticResolve(w)
    \/ \E w \in Workers : StaticRead(w)
    \/ \E w \in Workers : StaticRespond(w)
    \/ \E w \in Workers : Close(w)
    \/ RewriteFile(StylePath)

SpecShared == InitServer /\ [][NextShared]_vars

\* ------------------------------------------------------- _handle_proxy

BACKEND_HOST == "backend"

\* resp.read(8192): the size of one relayed chunk, in bytes.
ChunkSize == 8192
\* A read size twice that of line 125.
BlocksPerReadTwice == (2 * ChunkSize) \div 4096

\* Response bodies are sequences of blocks of 4096 bytes.
BlocksPerRead == ChunkSize \div 4096

\* {k: v for k, v in self.headers.items() if k.lower() != 'host'}: a dict
\* keeps one entry per key, at the place of the key's first occurrence and
\* with the value of its last.
header_dict(items) ==
    LET kept == SelectSeq(items, LAMBDA h : Lower(h.k) # "host")
        firstOf(i) == \A j \in 1..(i - 1) : kept[j].k # kept[i].k
        lastValue(k) ==
            kept[CHOOSE i \in 1..Len(kept) :
                    kept[i].k = k /\ \A j \in (i + 1)..Len(kept) : kept[j].k # k].v
        firsts == SelectSeq([i \in 1..Len(kept) |-> [i |-> i, h |-> kept[i]]],
                            LAMBDA e : firstOf(e.i))
    IN  [n \in 1..Len(firsts) |-> Hdr(firsts[n].h.k, lastValue(firsts[n].h.k))]

\* Lines 104-105: the headers handed to conn.request.
proxy_headers(items) == Append(header_dict(items), Hdr("Host", BACKEND_HOST))

\* int(text) of a Content-Length value; -1 stands for the ValueError.
IntOf(text) ==
    IF \E n \in 0..9 : ToString(n) = text
    THEN CHOOSE n \in 0..9 : ToString(n) = text
    ELSE -1

IntError(text) == "invalid literal for int() with base 10: '" \o text \o "'"

\* Lines 107-110: the body read from the client, [has, bytes, error].
proxy_body(r) ==
    IF ~HeaderHas(r.headers, "content-length")
    THEN [has |-> FALSE, bytes |-> <<>>, error |-> NoExc]
    ELSE LET text == HeaderGet(r.headers, "content-length", "")
             length == IntOf(text)
         IN  IF length < 0
             THEN [has |-> FALSE, bytes |-> <<>>, error |-> IntError(text)]
             ELSE [has |-> TRUE,
                   bytes |-> SubSeq(r.body, 1, IF length < Len(r.body) THEN length
                                               ELSE Len(r.body)),
                   error |-> NoExc]

\* A forwarder that tries again after a failure instead of answering.
ProxyFailRetry(w, o, e) ==
    /\ pc' = [pc EXCEPT ![w] = "dispatch"]
    /\ exc' = [exc EXCEPT ![w] = e]
    /\ UNCHANGED <<out, escaped>>

\* The except clause of _handle_proxy (lines 130-131): send_error(502, ...);
\* an exception of send_error itself leaves _handle_proxy for do_GET's
\* except clause.
ProxyFail(w, o, e) ==
    Finish(w, send_error([o EXCEPT !.raised = NoExc], 502, "Proxy error: " \o e,
                         req[w].method),
           e)

ConnectErrors == {"[Errno 111] Connection refused", "timed out"}
ResponseErrors == {"[Errno 104] Connection reset by peer"}
\* The 10 s timeout of line 100 expiring while the response is awaited.
ReadTimeouts == {"timed out"}

IsProxy(r) == r.method \in {"GET", "HEAD"} /\ r.path # StatusPath /\ startswith_api(r.path)

\* Lines 98-111: the connection object, the outbound headers, the body,
\* and conn.request, which connects and sends the request.
ProxyRequest(w) ==
    /\ pc[w] = "dispatch"
    /\ IsProxy(req[w])
    /\ route' = [route EXCEPT ![w] = "proxy"]
    /\ LET body == proxy_body(req[w])
           call == [method |-> req[w].method, path |-> req[w].path,
                    headers |-> proxy_headers(req[w].headers),
                    has_body |-> body.has, body |-> body.bytes]
       IN  IF body.error # NoExc
           THEN /\ ProxyFail(w, Out(w), body.error)
                /\ conn' = [conn EXCEPT ![w] = "new"]
                /\ UNCHANGED outreq
           ELSE /\ outreq' = [outreq EXCEPT ![w] = Append(@, call)]
                /\ \/ /\ conn' = [conn EXCEPT ![w] = "open"]
                      /\ pc' = [pc EXCEPT ![w] = "proxy_response"]
                      /\ UNCHANGED <<out, exc, escaped>>
                   \/ \E e \in ConnectErrors :
                        /\ ProxyFail(w, Out(w), e)
                        /\ conn' = [conn EXCEPT ![w] = "new"]
    /\ UNCHANGED <<envVars, req, gone, staticVars, upstream>>

\* Lines 114-123: the backend's status and headers are relayed, without
\* Transfer-Encoding and Connection, and with Vary added.
RECURSIVE relay_headers(_, _)
relay_headers(o, headers) ==
    IF headers = <<>> THEN o
    ELSE LET h == Head(headers)
         IN  relay_headers(
               IF Lower(h.k) \in {"transfer-encoding", "connection"} THEN o
               ELSE send_header(o, h.k, h.v),
               Tail(headers))

Reason(status) == IF status = 200 THEN "OK" ELSE "Not Found"

relay_head(o, resp) ==
    end_headers(send_header(
        relay_headers(send_response(o, resp.status, Reason(resp.status)), resp.headers),
        "Vary", "Accept-Encoding"))

\* Lines 112-123: conn.getresponse() and the relayed head.  A response to a
\* HEAD request has no body.
ProxyGetResponse(w, responses) ==
    /\ pc[w] = "proxy_response"
    /\ \/ \E resp \in responses :
            LET o == relay_head(Out(w), resp)
            IN  IF o.raised # NoExc
                THEN /\ ProxyFail(w, o, o.raised)
                     /\ UNCHANGED <<upstream, conn>>
                ELSE /\ upstream' = [upstream EXCEPT ![w] =
                            LET body == IF req[w].method = "HEAD" THEN <<>> ELSE resp.body
                            IN  [status |-> resp.status, headers |-> resp.headers,
                                 body |-> body, left |-> body]]
                     /\ out' = [out EXCEPT ![w] = Plain(o)]
                     /\ pc' = [pc EXCEPT ![w] = "proxy_relay"]
                     /\ UNCHANGED <<exc, escaped, conn>>
       \/ \E e \in ResponseErrors \cup ReadTimeouts :
            /\ ProxyFail(w, Out(w), e)
            \* getresponse closes the connection itself on a ConnectionError,
            \* and on no other exception
            /\ conn' = [conn EXCEPT ![w] = IF e \in ResponseErrors THEN "closed" ELSE @]
            /\ UNCHANGED upstream
    /\ UNCHANGED <<envVars, req, gone, route, staticVars, outreq>>

Min(a, b) == IF a < b THEN a ELSE b

\* Lines 125-129: one turn of the relay loop: resp.read(8192), then either
\* wfile.write(chunk), or conn.close() when the body is exhausted.
ProxyRelay(w) ==
    /\ pc[w] = "proxy_relay"
    /\ \/ LET left == upstream[w].left
              n == Min(BlocksPerRead, Len(left))
              chunk == SubSeq(left, 1, n)
          IN  IF chunk # <<>>
              THEN LET o == wfile_write(Out(w), <<BodyLine(chunk)>>)
                   IN  /\ upstream' = [upstream EXCEPT ![w].left = SubSeq(left, n + 1, Len(left))]
                       /\ IF o.raised # NoExc
                          THEN ProxyFail(w, o, o.raised)
                          ELSE /\ out' = [out EXCEPT ![w] = Plain(o)]
                               /\ UNCHANGED <<pc, exc, escaped>>
                       /\ UNCHANGED conn
              ELSE /\ conn' = [conn EXCEPT ![w] = "closed"]
                   /\ Finish(w, Out(w), NoExc)
                   /\ UNCHANGED upstream
       \/ \E e \in ResponseErrors \cup ReadTimeouts :
            \* the read fails while bytes of the body are still to arrive
            /\ upstream[w].left # <<>>
            /\ ProxyFail(w, Out(w), e)
            /\ UNCHANGED <<conn, upstream>>
    /\ UNCHANGED <<envVars, req, gone, route, staticVars, outreq>>

\* ------------------------------------------------- proxied request sets

ProxyPaths == {<<Sep, "api">>, <<Sep, "api", Sep, "events", Query>>, <<Sep, "apiary">>}
Methods == {"GET", "HEAD", "POST", "DELETE"}

ExtraHeaders == {Hdr("X-Tag", "a"), Hdr("X-Tag", "b"), Hdr("Cookie", "c"), Hdr("HOST", "other")}

ClientBody == <<7, 8>>

ProxyRequests ==
    {Request(m, p, <<HostHdr>>, <<>>) : m \in Methods, p \in ProxyPaths}
      \cup {Request(m, <<Sep, "api">>, <<HostHdr, Hdr("Content-Length", n)>>, ClientBody) :
                m \in Methods, n \in {"2", "1", "zz"}}
      \cup {Request("GET", <<Sep, "api">>, <<HostHdr>> \o h, <<>>) :
                h \in SeqsUpTo(ExtraHeaders, MaxHdrs)}

Response(st, h, b) == [status |-> st, headers |-> h, body |-> b]

BackendHeaders ==
    {<<>>, <<Hdr("Content-Length", "1")>>,
     <<Hdr("Transfer-Encoding", "chunked"), Hdr("X-Tag", "a")>>,
     <<Hdr("Connection", "close"), Hdr("Content-Length", "1")>>}

BackendResponses ==
    {Response(st, h, <<1>>) : st \in {200, 404}, h \in BackendHeaders}
      \cup {Response(200, <<>>, [i \in 1..n |-> i]) : n \in 0..MaxBlocks}

\* The proxy part of the server: one worker, every proxied request.
NextProxy ==
    \/ \E r \in ProxyRequests : Accept(1, r)
    \/ Unsupported(1)
    \/ ProxyRequest(1)
    \/ ProxyGetResponse(1, BackendResponses)
    \/ ProxyRelay(1)
    \/ ClientDisconnect(1)
    \/ Close(1)

SpecProxy == Init /\ [][NextProxy]_vars

\* The relay alone: GET and HEAD of one proxied path, every backend response.
RelayRequests == {Request(m, <<Sep, "api">>, <<HostHdr>>, <<>>) : m \in {"GET", "HEAD"}}

NextRelay ==
    \/ \E r \in RelayRequests : Accept(1, r)
    \/ ProxyRequest(1)
    \/ ProxyGetResponse(1, BackendResponses)
    \/ ProxyRelay(1)
    \/ ClientDisconnect(1)
    \/ Close(1)

\* The handler thread keeps running: a relay loop that can take a turn
\* eventually takes it (resp.read returns or raises within the 10 s timeout
\* of line 100).
SpecRelay == InitServer /\ [][NextRelay]_vars /\ WF_vars(ProxyRelay(1))

\* ------------------------------------------------ the concurrent server

ServerRequests ==
    {Request("GET", StatusPath, <<HostHdr>>, <<>>),
     Request("HEAD", StatusPath, <<HostHdr>>, <<>>),
     Request("GET", <<Sep, "style.css">>, <<HostHdr>>, <<>>),
     Request("HEAD", <<Sep, "sub", Sep, "notes">>, <<HostHdr>>, <<>>),
     Request("GET", <<Sep, "api">>, <<HostHdr>>, <<>>),
     Request("POST", <<Sep, "api">>, <<HostHdr, Hdr("Content-Length", "2")>>, ClientBody)}

ServerResponses == {Response(200, <<>>, <<1, 2, 3>>)}

\* ThreadingHTTPServer with one worker thread per connection.
Next ==
    \/ \E w \in Workers, r \in ServerRequests : Accept(w, r)
    \/ \E w \in Workers : Unsupported(w)
    \/ \E w \in Workers : HandleStatus(w)
    \/ \E w \in Workers : StaticResolve(w)
    \/ \E w \in Workers : StaticRead(w)
    \/ \E w \in Workers : StaticRespond(w)
    \/ \E w \in Workers : ProxyRequest(w)
    \/ \E w \in Workers : ProxyGetResponse(w, ServerResponses)
    \/ \E w \in Workers : ProxyRelay(w)
    \/ \E w \in Workers : Close(w)
    \/ Shutdown

Spec == InitServer /\ [][Next]_vars

\* ------------------------------------------------ what the client reads

\* The index of the blank line that ends the response head (past the end
\* when the head never ended).
FirstEnd(wire) ==
    IF \E i \in 1..Len(wire) : wire[i].t = "end"
    THEN CHOOSE i \in 1..Len(wire) :
            wire[i].t = "end" /\ \A j \in 1..(i - 1) : wire[j].t # "end"
    ELSE Len(wire) + 1

HeadOf(wire) == SubSeq(wire, 1, Min(FirstEnd(wire), Len(wire)))

\* Everything written after the head: what the client reads as the body.
AfterHead(wire) == SubSeq(wire, FirstEnd(wire) + 1, Len(wire))

\* The status of the response: its first line (0 when nothing was written).
StatusReceived(w) == IF out[w].wire = <<>> THEN 0 ELSE out[w].wire[1].code

\* The values of a header of the response head, in order.
HeaderValues(wire, name) ==
    LET lines == SelectSeq(HeadOf(wire), LAMBDA l : l.t = "header" /\ l.k = name)
    IN  [i \in 1..Len(lines) |-> lines[i].v]

RECURSIVE BodyLen(_)
BodyLen(lines) ==
    IF lines = <<>> THEN 0
    ELSE (IF Head(lines).t = "body" THEN Len(Head(lines).data) ELSE 0) + BodyLen(Tail(lines))

\* The handler left _serve_static on a not-modified branch.
Emitted304(w) ==
    \E i \in 1..Len(out[w].wire) :
        out[w].wire[i].t = "status" /\ out[w].wire[i].code = 304

\* A static request whose file was read, stat'ed and answered without an exception.
Served(w) ==
    /\ pc[w] = "done"
    /\ route[w] = "static"
    /\ full_path[w] # <<>>
    /\ exc[w] = NoExc

Inm(w) == HeaderGet(req[w].headers, "If-None-Match", NoHeader)
Ims(w) == HeaderGet(req[w].headers, "If-Modified-Since", NoHeader)

\* ------------------------------------------------------------------ claims

\* C1: every filesystem path that do_GET tests for existence or hands to
\* _serve_static for reading lies inside the document root.
\* (Stated as the claim; GET /%2Fsecret refutes it.)
C1_AccessInsideRoot ==
    \A w \in Workers : \A p \in accessed[w] : InsideRoot(p)

\* C2: a GET whose If-None-Match equals the ETag of the file's bytes receives
\* the status line 304, no body bytes and no Content-Length header.
\* (Stated as the claim; the 304 line follows a buffered 200 line.)
C2_InmAnswered304 ==
    \A w \in Workers :
        (Served(w) /\ req[w].method = "GET" /\ Inm(w) = generate_etag_bytes(data[w]))
        => /\ StatusReceived(w) = 304
           /\ AfterHead(out[w].wire) = <<>>
           /\ HeaderValues(out[w].wire, "Content-Length") = <<>>

\* C3: when the exchange with the backend fails at any step and the client
\* is still connected, the client receives status 502 and no exception leaves
\* the handler.
\* (Stated as the claim; a failure after the head was relayed refutes it.)
C3_BackendFailureGives502 ==
    \A w \in Workers :
        (/\ pc[w] = "done"
         /\ route[w] = "proxy"
         /\ exc[w] \in ConnectErrors \cup ResponseErrors
         /\ ~gone[w])
        => StatusReceived(w) = 502 /\ escaped[w] = NoExc

\* C4: a request of any method whose path starts with /api is dispatched to
\* the forwarder, whose backend request has the same method, the full path
\* and exactly the Content-Length bytes of the body (none without the header).
\* (Stated as the claim; POST /api refutes it.)
C4_AnyMethodProxied ==
    \A w \in Workers :
        (pc[w] \notin {"idle", "dispatch"} /\ startswith_api(req[w].path))
        => /\ route[w] = "proxy"
           /\ outreq[w] # <<>> =>
                LET call == outreq[w][1]
                    n == IntOf(HeaderGet(req[w].headers, "Content-Length", ""))
                IN  /\ call.method = req[w].method
                    /\ call.path = req[w].path
                    /\ call.has_body = HeaderHas(req[w].headers, "Content-Length")
                    /\ call.has_body => call.body = SubSeq(req[w].body, 1, n)

\* C5: a HEAD request gets the status and headers of the corresponding GET,
\* with a Content-Length equal to the length of the body GET sends, and no
\* body bytes.
\* (Stated as the claim; HEAD /_status refutes it.)
C5_HeadMirrorsGet ==
    \A h \in Workers, g \in Workers :
        (/\ pc[h] = "done" /\ pc[g] = "done"
         /\ req[h].method = "HEAD"
         /\ req[g] = [req[h] EXCEPT !.method = "GET"]
         /\ exc[h] = NoExc /\ exc[g] = NoExc)
        => /\ HeadOf(out[h].wire) = HeadOf(out[g].wire)
           /\ AfterHead(out[h].wire) = <<>>
           /\ HeaderValues(out[h].wire, "Content-Length")
                = <<ToString(BodyLen(AfterHead(out[g].wire)))>>

\* C6: with no matching If-None-Match, a request whose If-Modified-Since
\* parses to a date D is answered not-modified whenever the modification
\* time, at the whole-second precision of the Last-Modified header, is not
\* after D.
\* (Stated as the claim; a modification time between two seconds refutes it.)
C6_NotModifiedAtSecondPrecision ==
    \A w \in Workers :
        (/\ Served(w)
         /\ Inm(w) # generate_etag_bytes(data[w])
         /\ Ims(w) # NoHeader
         /\ parsedate_to_datetime(Ims(w)) >= 0
         /\ parsedate_to_datetime(format_datetime(stat[w])) <= parsedate_to_datetime(Ims(w)))
        => Emitted304(w) /\ AfterHead(out[w].wire) = <<>>

\* C7: an exception raised while serving a request gives that request a 500
\* response (502 for a proxied one), and every other worker completes its
\* response.
\* (Stated as the claim; a backend failure after the relayed head refutes it.)
C7_FailureIsolated ==
    /\ \A w \in Workers :
          (pc[w] = "done" /\ exc[w] # NoExc)
          => StatusReceived(w) = IF route[w] = "proxy" THEN 502 ELSE 500
    /\ \A v \in Workers :
          (pc[v] = "done" /\ exc[v] = NoExc)
          => out[v].wire # <<>> /\ out[v].hbuf = <<>>

\* The half of C7 that is about the other threads: the step in which a
\* worker's exception is raised changes neither the listener nor any other
\* worker.
C7_Isolation ==
    [][\A w \in Workers :
          (exc[w] = NoExc /\ exc'[w] # NoExc)
          => /\ listening' = listening
             /\ \A v \in Workers \ {w} :
                   /\ pc'[v] = pc[v]
                   /\ out'[v] = out[v]
                   /\ exc'[v] = exc[v]
                   /\ escaped'[v] = escaped[v]]_vars

\* C8: two requests of the same route that fail with the same error status
\* receive the same status line, whatever the text of their exceptions.
\* (Stated as the claim; two connection errors refute it.)
C8_ErrorBytesIndependent ==
    \A a \in Workers, b \in Workers :
        (/\ pc[a] = "done" /\ pc[b] = "done"
         /\ exc[a] # NoExc /\ exc[b] # NoExc
         /\ route[a] = route[b]
         /\ StatusReceived(a) \in {403, 404, 500, 502}
         /\ StatusReceived(a) = StatusReceived(b))
        => out[a].wire[1] = out[b].wire[1]

\* The request headers without the conditional ones.
Unconditional(headers) ==
    SelectSeq(headers, LAMBDA h : Lower(h.k) \notin {"if-none-match", "if-modified-since"})

\* The response _serve_static gives worker w's request once its conditional
\* headers are removed: the 200 response.
FullResponse(w) ==
    serve_static(Started(NewOut, FALSE), Unconditional(req[w].headers), full_path[w],
                 data[w], stat[w], req[w].method = "HEAD").wire

CacheHeaders == {"Cache-Control", "ETag", "Last-Modified", "Vary"}

\* C9: a not-modified response, by If-None-Match or by If-Modified-Since,
\* carries exactly the Cache-Control, ETag, Last-Modified and Vary values of
\* the 200 response to the same request without conditional headers.
C9_NotModifiedKeepsCacheHeaders ==
    \A w \in Workers :
        (Served(w) /\ Emitted304(w))
        => \A name \in CacheHeaders :
              /\ HeaderValues(out[w].wire, name) = HeaderValues(FullResponse(w), name)
              /\ Len(HeaderValues(out[w].wire, name)) = 1

\* C9's case: a request answered not-modified by its If-Modified-Since date
\* alone, for a file that has all four headers.
C9_Witness ==
    \E w \in Workers :
        /\ Served(w) /\ Emitted304(w)
        /\ Inm(w) = NoHeader /\ Ims(w) # NoHeader
        /\ StatusReceived(w) = 200
        /\ HeaderValues(out[w].wire, "Cache-Control") = <<"public, max-age=2592000">>

\* The headers of a backend request other than Host.
WithoutHost(headers) == SelectSeq(headers, LAMBDA h : Lower(h.k) # "host")

\* C10: the backend request carries every header of the inbound request but
\* Host, every value of a repeated name included, in the original order, and
\* the backend's Host.
\* (Stated as the claim; a repeated header name refutes it.)
C10_AllHeadersForwarded ==
    \A w \in Workers :
        outreq[w] # <<>> =>
            /\ WithoutHost(outreq[w][1].headers) = WithoutHost(req[w].headers)
            /\ HeaderGet(outreq[w][1].headers, "Host", "") = BACKEND_HOST

\* The bytes of the body writes among the lines, in order.
RECURSIVE BodyBytes(_)
BodyBytes(lines) ==
    IF lines = <<>> THEN <<>>
    ELSE (IF Head(lines).t = "body" THEN Head(lines).data ELSE <<>>) \o BodyBytes(Tail(lines))

\* The backend has answered worker w's request and nothing has failed.
Relaying(w) ==
    /\ pc[w] \in {"proxy_relay", "done"}
    /\ route[w] = "proxy"
    /\ exc[w] = NoExc

\* What was relayed so far is the backend's status and a prefix of its body,
\* in writes of at most 8192 bytes, and the rest is still to be read.
RelayedExactly(w) ==
    LET body == AfterHead(out[w].wire)
    IN  /\ StatusReceived(w) = upstream[w].status
        /\ BodyBytes(body) \o upstream[w].left = upstream[w].body
        /\ \A i \in 1..Len(body) :
              /\ body[i].t = "body"
              /\ body[i].data # <<>>
              /\ Len(body[i].data) * 4096 <= ChunkSize
        /\ pc[w] = "done" => upstream[w].left = <<>>

\* C11: when the backend answers, the client receives the backend's status
\* and exactly the backend's body bytes in order, in chunks of at most 8192
\* bytes, none reordered, dropped or duplicated, and the relay loop ends.
C11_RelayExactAndTerminates ==
    /\ [](\A w \in Workers : Relaying(w) => RelayedExactly(w))
    /\ \A w \in Workers : (pc[w] = "proxy_relay") ~> (pc[w] = "done")

\* C11's case: a body of three blocks was relayed in two writes.
C11_Witness ==
    \E w \in Workers :
        /\ Relaying(w) /\ pc[w] = "done"
        /\ Len(upstream[w].body) = 3
        /\ Len(AfterHead(out[w].wire)) = 2

\* The payload of a gzip stream: what is between the header and the trailer.
Gunzip(stream) == SubSeq(stream, 3, Len(stream) - 1)

\* The uncompressed bytes that the body of worker w's response carries.
PlainBody(w) ==
    LET body == BodyBytes(AfterHead(out[w].wire))
    IN  IF HeaderValues(out[w].wire, "Content-Encoding") = <<"gzip">>
        THEN Gunzip(body) ELSE body

\* C12: the ETag of a static response is the digest of exactly the
\* uncompressed bytes its body carries, which are the bytes of the request's
\* one read of the file, and Content-Length is the length of the body sent,
\* whatever happens to the file or on other connections meanwhile.
C12_EtagOfBodySnapshot ==
    \A w \in Workers :
        (Served(w) /\ req[w].method = "GET" /\ ~Emitted304(w))
        => /\ PlainBody(w) = data[w]
           /\ HeaderValues(out[w].wire, "ETag") = <<ToString(Digest(PlainBody(w), 0))>>
           /\ HeaderValues(out[w].wire, "Content-Length")
                = <<ToString(Len(BodyBytes(AfterHead(out[w].wire))))>>

\* C12's case: two connections served the same path, one before and one
\* after the file was rewritten; one of the bodies is compressed.
C12_Witness ==
    \E a \in Workers, b \in Workers :
        /\ Served(a) /\ Served(b)
        /\ full_path[a] = StylePath /\ full_path[b] = StylePath
        /\ data[a] # data[b]
        /\ data[b] = fs[StylePath].data
        /\ HeaderValues(out[a].wire, "Content-Encoding") = <<"gzip">>

\* The request headers without Accept-Encoding.
WithoutAcceptEncoding(headers) ==
    SelectSeq(headers, LAMBDA h : Lower(h.k) # "accept-encoding")

\* Two requests that differ at most in Accept-Encoding, served from the same
\* version of the same file.
SameButEncoding(a, b) ==
    /\ Served(a) /\ Served(b)
    /\ req[a].method = req[b].method
    /\ req[a].path = req[b].path
    /\ WithoutAcceptEncoding(req[a].headers) = WithoutAcceptEncoding(req[b].headers)
    /\ data[a] = data[b]
    /\ stat[a] = stat[b]

\* C13: two static requests for the same unchanged file that differ only in
\* Accept-Encoding receive the same ETag and the same Last-Modified, whether
\* or not either body is gzip-encoded.
C13_ValidatorsIgnoreEncoding ==
    \A a \in Workers, b \in Workers :
        SameButEncoding(a, b)
        => \A name \in {"ETag", "Last-Modified"} :
              /\ HeaderValues(out[a].wire, name) = HeaderValues(out[b].wire, name)
              /\ Len(HeaderValues(out[a].wire, name)) = 1

\* C13's case: the same file served gzip-encoded on one connection and
\* plain on another.
C13_Witness ==
    \E a \in Workers, b \in Workers :
        /\ SameButEncoding(a, b)
        /\ HeaderValues(out[a].wire, "Content-Encoding") = <<"gzip">>
        /\ HeaderValues(out[b].wire, "Content-Encoding") = <<>>
        /\ AfterHead(out[a].wire) # AfterHead(out[b].wire)

\* The file a static request names: its normalized path under the document
\* root, with index.html appended when that is a directory.
RequestedFile(w) ==
    LET joined == join(PUBLIC_DIR, normalized_of(req[w].path))
    IN  IF isdir(fs, joined) THEN joined \o <<"index.html">> ELSE joined

\* A static request that passed the traversal check and names a missing file.
MissingFile(w) ==
    /\ route[w] = "static"
    /\ pc[w] \in {"static_read", "static_respond", "done"}
    /\ ~startswith_dotdot(normalized_of(req[w].path))
    /\ ~exists(fs, RequestedFile(w))

\* C14: a static request for a missing file is served the root index.html
\* (200, its content, Cache-Control: no-cache) when that exists, and answered
\* 404 otherwise; 404 is the answer only when both are missing.
C14_FallbackToIndex ==
    \A w \in Workers :
        /\ MissingFile(w) =>
              IF fs[IndexPath].present
              THEN /\ full_path[w] = IndexPath
                   /\ (Served(w) /\ req[w].method = "GET"
                          /\ Inm(w) = NoHeader /\ Ims(w) = NoHeader)
                      => /\ StatusReceived(w) = 200
                         /\ ~Emitted304(w)
                         /\ PlainBody(w) = fs[IndexPath].data
                         /\ HeaderValues(out[w].wire, "Cache-Control") = <<"no-cache">>
              ELSE pc[w] = "done" /\ StatusReceived(w) = 404
        /\ (route[w] = "static" /\ pc[w] = "done" /\ StatusReceived(w) = 404)
           => ~exists(fs, RequestedFile(w)) /\ ~fs[IndexPath].present

\* C14's case: a missing file under a directory of the document root was
\* answered with the root index.html.
C14_Witness ==
    \E w \in Workers :
        /\ MissingFile(w) /\ Served(w)
        /\ req[w].path = <<Sep, "sub", Sep, "nope">>
        /\ StatusReceived(w) = 200
        /\ AfterHead(out[w].wire) = <<BodyLine(IndexData)>>

\* The decoded, normalized relative path of worker w's static request begins
\* with "..".
BeginsWithDotDot(w) ==
    /\ route[w] = "static"
    /\ LET n == normalized_of(req[w].path)
       IN  n.slashes = 0 /\ n.comps # <<>> /\ n.comps[1] \in DotDotNames

\* C15: a static request whose decoded, normalized relative path begins with
\* ".." is answered 403, and the request is rejected before the path is joined
\* to the document root: no path is tested for existence or read for it.
C15_DotDotForbiddenBeforeJoin ==
    \A w \in Workers :
        BeginsWithDotDot(w)
        => /\ pc[w] = "done"
           /\ StatusReceived(w) = 403
           /\ exc[w] = NoExc
           /\ accessed[w] = {}
           /\ full_path[w] = <<>>
           /\ data[w] = <<>>

\* C15's case: a traversal written with percent-encoded dots and slash.
C15_Witness ==
    \E w \in Workers :
        /\ BeginsWithDotDot(w)
        /\ req[w].path = <<Sep, "%2E%2E", EncSep, "secret">>
        /\ StatusReceived(w) = 403

\* The request headers without If-Modified-Since.
WithoutIms(headers) ==
    SelectSeq(headers, LAMBDA h : Lower(h.k) # "if-modified-since")

\* Worker w's request has an If-Modified-Since that is no HTTP-date.
MalformedIms(w) ==
    /\ Ims(w) # NoHeader
    /\ \A s \in 0..9 : Ims(w) # HttpDate(s)

\* C16: a static request whose If-Modified-Since cannot be parsed is served
\* exactly as the same request without the header; unless its If-None-Match
\* matches, that is status 200 with the full body, never an error or a 304.
C16_MalformedImsIgnored ==
    \A w \in Workers :
        (Served(w) /\ MalformedIms(w))
        => /\ out[w].wire
                = serve_static(Started(NewOut, FALSE), WithoutIms(req[w].headers),
                               full_path[w], data[w], stat[w],
                               req[w].method = "HEAD").wire
           /\ Inm(w) # ToString(Digest(data[w], 0))
              => /\ StatusReceived(w) = 200
                 /\ ~Emitted304(w)
                 /\ \A i \in 1..Len(out[w].wire) :
                       out[w].wire[i].t = "status" => out[w].wire[i].code = 200
                 /\ req[w].method = "GET" => PlainBody(w) = data[w]
                 /\ Len(HeaderValues(out[w].wire, "Content-Length")) = 1

\* C16's case: If-Modified-Since: yesterday alone, answered with the body.
C16_Witness ==
    \E w \in Workers :
        /\ Served(w) /\ MalformedIms(w)
        /\ Ims(w) = "yesterday" /\ Inm(w) = NoHeader
        /\ req[w].method = "GET"
        /\ StatusReceived(w) = 200
        /\ BodyBytes(AfterHead(out[w].wire)) # <<>>

\* The fixed table: the directive of each extension.
CacheTable(ext) ==
    CASE ext = ".html" -> "no-cache"
      [] ext \in {".css", ".js", ".png", ".jpg", ".jpeg", ".svg", ".ico"} ->
            "public, max-age=2592000"
      [] OTHER -> "public, max-age=3600"

\* C17: the Cache-Control directive of every static response is the one the
\* fixed table gives for the extension of the served file, whatever the
\* request's headers and whichever branch (200 or not-modified) answers.
C17_CacheControlByExtension ==
    \A w \in Workers :
        Served(w)
        => HeaderValues(out[w].wire, "Cache-Control")
             = <<CacheTable(Extension(Last(full_path[w])))>>

\* C17's case: an image of the long-lived class, requested with a
\* compression offer.
C17_Witness ==
    \E w \in Workers :
        /\ Served(w)
        /\ Extension(Last(full_path[w])) = ".svg"
        /\ HeaderGet(req[w].headers, "Accept-Encoding", "") = "gzip"
        /\ HeaderValues(out[w].wire, "Cache-Control") = <<"public, max-age=2592000">>

\* C18: for each client request the forwarder calls conn.request, which
\* makes the connection attempt and sends the request, at most once; once an
\* exchange with the backend has failed the handler is at its end, answers
\* with an error and makes no further call.
C18_SingleBackendAttempt ==
    /\ [](\A w \in Workers :
            /\ Len(outreq[w]) <= 1
            /\ (route[w] = "proxy" /\ exc[w] # NoExc)
               => /\ pc[w] = "done"
                  /\ ~gone[w] => \E i \in 1..Len(out[w].wire) :
                                    /\ out[w].wire[i].t = "status"
                                    /\ out[w].wire[i].code = 502)
    /\ [][\A w \in Workers :
            (exc[w] # NoExc /\ pc'[w] # "idle")
            => outreq'[w] = outreq[w] /\ conn'[w] = conn[w]]_vars

\* C18's case: the one request was sent, and the backend's connection was
\* reset while its response was read.
C18_Witness ==
    \E w \in Workers :
        /\ route[w] = "proxy" /\ pc[w] = "done"
        /\ exc[w] \in ResponseErrors
        /\ Len(outreq[w]) = 1
        /\ AfterHead(out[w].wire) # <<>>

\* The number of status lines among the lines.
RECURSIVE StatusLines(_)
StatusLines(lines) ==
    IF lines = <<>> THEN 0
    ELSE (IF Head(lines).t = "status" THEN 1 ELSE 0) + StatusLines(Tail(lines))

\* C19: every handled request emits exactly one status line, the first thing
\* written, and on no path is a second status line buffered or sent.
\* (Stated as the claim; a matching If-None-Match refutes it.)
C19_OneStatusLine ==
    \A w \in Workers :
        /\ StatusLines(out[w].wire \o out[w].hbuf) <= 1
        /\ pc[w] = "done" =>
              /\ StatusLines(out[w].wire) = 1
              /\ out[w].wire[1].t = "status"

\* C20: no request ends with its backend connection still open: the handler
\* closes every connection it opened, whether the relay completes or fails.
\* (Stated as the claim; a failure after conn.request refutes it.)
C20_BackendConnectionClosed ==
    \A w \in Workers :
        (pc[w] = "done" /\ route[w] = "proxy") => conn[w] # "open"

====
